---- MODULE Spec2Model ----
(***************************************************************************)
(* Model of the data-quality pipeline of plataforma-qualidade-dados:       *)
(* the validator run_data_validations (src/src/validation/validator.py)    *)
(* over the tables "transactions" (Record Store) and                       *)
(* "data_validation_logs" (Violation Log), with the ingestor that loads    *)
(* the Record Store and the calendar that moves CURRENT_DATE.              *)
(***************************************************************************)
EXTENDS Integers, Sequences, FiniteSets, TLC

(***************************************************************************)
(* Bounds of the model.                                                    *)
(***************************************************************************)
\* number of calls of run_data_validations in one behaviour
MaxRuns == 2

(***************************************************************************)
(* SQL values.  A column value is NULL or a value; NULL is the empty       *)
(* tuple and a value v is <<v>>, so that NULL compares with nothing.       *)
(* A SQL condition evaluates to "T", "F" or "U" (unknown); WHERE keeps     *)
(* the rows whose condition is "T".                                        *)
(***************************************************************************)
Null == <<>>
Val(v) == <<v>>
IsNull(x) == x = Null

SqlIsNull(x) == IF IsNull(x) THEN "T" ELSE "F"

SqlOr(a, b) ==
    IF a = "T" \/ b = "T" THEN "T"
    ELSE IF a = "F" /\ b = "F" THEN "F"
    ELSE "U"

SqlNot(a) == IF a = "T" THEN "F" ELSE IF a = "F" THEN "T" ELSE "U"

\* x < n for a nullable numeric column x and a literal n
SqlLess(x, n) ==
    IF IsNull(x) THEN "U" ELSE IF x[1] < n THEN "T" ELSE "F"

\* x IN (list) for a nullable column x and a list of non-null literals
SqlIn(x, list) ==
    IF IsNull(x) THEN "U" ELSE IF x[1] \in list THEN "T" ELSE "F"

(***************************************************************************)
(* Calendar dates are <<year, month, day>>, ordered as dates are.          *)
(***************************************************************************)
DateAfter(a, b) ==
    \/ a[1] > b[1]
    \/ a[1] = b[1] /\ a[2] > b[2]
    \/ a[1] = b[1] /\ a[2] = b[2] /\ a[3] > b[3]

\* the days on which the model's clock can stand: the validator's
\* CURRENT_DATE starts at Day0 and can pass midnight once, to Day1
Day0 == <<2025, 12, 31>>
Day1 == <<2026, 1, 1>>
PastDate == <<2025, 5, 1>>
FarDate == <<2026, 1, 10>>

(***************************************************************************)
(* Python's rendering of a value inside an f-string, as a sequence of      *)
(* one-character strings.                                                  *)
(***************************************************************************)
Digit(d) == <<"0", "1", "2", "3", "4", "5", "6", "7", "8", "9">>[d + 1]

RECURSIVE Digits(_)
Digits(n) == IF n < 10 THEN <<Digit(n)>> ELSE Digits(n \div 10) \o <<Digit(n % 10)>>

RECURSIVE ZeroPad(_, _)
ZeroPad(s, width) == IF Len(s) >= width THEN s ELSE ZeroPad(<<"0">> \o s, width)

Abs(n) == IF n < 0 THEN -n ELSE n

\* str(Decimal) of an amount held in cents in a NUMERIC(_, 2) column: -5000 is "-50.00"
StrAmount(x) ==
    IF IsNull(x) THEN <<"None">>
    ELSE (IF x[1] < 0 THEN <<"-">> ELSE <<>>)
         \o Digits(Abs(x[1]) \div 100) \o <<".">> \o ZeroPad(Digits(Abs(x[1]) % 100), 2)

\* str(datetime.date): ISO format YYYY-MM-DD
StrDate(d) ==
    ZeroPad(Digits(d[1]), 4) \o <<"-">> \o ZeroPad(Digits(d[2]), 2)
    \o <<"-">> \o ZeroPad(Digits(d[3]), 2)

\* str of a nullable text column: None renders as the text None
StrText(x) == IF IsNull(x) THEN <<"None">> ELSE <<x[1]>>

\* sub occurs in msg as a contiguous run
Contains(msg, sub) ==
    \E i \in 1..(Len(msg) - Len(sub) + 1) : SubSeq(msg, i, i + Len(sub) - 1) = sub

(***************************************************************************)
(* The Record Store: rows of the table "transactions".  Only the columns   *)
(* the validator reads are kept (transaction_time, currency,               *)
(* transaction_type, merchant_name and status are read by no rule).        *)
(* transaction_id is the table's primary key.                              *)
(***************************************************************************)
TransactionIds == {"trans-1", "trans-2"}

\* the column values of the rows the model works with: the two rows of
\* test_validator_no_violations, and rows on each side of each rule
Shapes == {
    \* trans-valid-1 of test_validator_no_violations
    [account_id |-> Val("acc-1"), transaction_date |-> PastDate,
     amount |-> Val(9999), category |-> Val("COMPRAS")],
    \* trans-valid-2 of test_validator_no_violations
    [account_id |-> Val("acc-1"), transaction_date |-> PastDate,
     amount |-> Val(1050), category |-> Val("FINANCAS")],
    \* amount zero, dated the first day of the clock
    [account_id |-> Val("acc-1"), transaction_date |-> Day0,
     amount |-> Val(0), category |-> Val("LAZER")],
    \* no amount, no account, dated after every day of the clock
    [account_id |-> Null, transaction_date |-> FarDate,
     amount |-> Null, category |-> Val("COMPRAS")],
    \* negative amount, dated the second day of the clock, no account, no category
    [account_id |-> Null, transaction_date |-> Day1,
     amount |-> Val(-5000), category |-> Null]
}

Row(id, shape) ==
    [transaction_id |-> id, account_id |-> shape.account_id,
     transaction_date |-> shape.transaction_date,
     amount |-> shape.amount, category |-> shape.category]

Rows == {Row(id, sh) : id \in TransactionIds, sh \in Shapes}

IdsOf(table) == {r.transaction_id : r \in table}

\* the primary key holds
UniqueIds(table) ==
    \A r1, r2 \in table : r1.transaction_id = r2.transaction_id => r1 = r2

\* the sequences that list the elements of S once each: the orders in which
\* a SELECT without ORDER BY may return the rows S
Orderings(S) ==
    {s \in [1..Cardinality(S) -> S] : \A i, j \in 1..Cardinality(S) : s[i] = s[j] => i = j}

(***************************************************************************)
(* The five rules of run_data_validations: the WHERE clause of each query, *)
(* the rule name and the message of the row it logs.                       *)
(***************************************************************************)
\* WHERE amount = NULL, which is unknown for every row
null_amount_query_equals_null(row) == "U"

null_amount_query(row) == SqlIsNull(row.amount)

\* rule 2 skipping the rows rule 1 has logged:
\* WHERE amount IS NOT NULL AND account_id IS NULL
null_account_query_skip_logged(row) ==
    IF IsNull(row.amount) THEN "F" ELSE SqlIsNull(row.account_id)

null_account_query(row) == SqlIsNull(row.account_id)

negative_amount_query(row) == SqlLess(row.amount, 0)

\* WHERE transaction_date >= CURRENT_DATE
future_date_query_or_equal(row, current_date) ==
    IF row.transaction_date = current_date \/ DateAfter(row.transaction_date, current_date)
    THEN "T" ELSE "F"

\* transaction_date > CURRENT_DATE
future_date_query(row, current_date) ==
    IF DateAfter(row.transaction_date, current_date) THEN "T" ELSE "F"

\* the list with an entry forgotten
valid_categories_short == {"ALIMENTACAO", "COMPRAS", "SERVICOS", "TRANSPORTES", "SAUDE"}

valid_categories == {"ALIMENTACAO", "COMPRAS", "SERVICOS", "TRANSPORTES", "SAUDE", "LAZER"}

\* the query without OR category IS NULL
invalid_category_query_not_in(row) == SqlNot(SqlIn(row.category, valid_categories))

\* category NOT IN (...) OR category IS NULL
invalid_category_query(row) ==
    SqlOr(SqlNot(SqlIn(row.category, valid_categories)), SqlIsNull(row.category))

NumRules == 5

rule_name(k) ==
    CASE k = 1 -> "Amount Nulo"
      [] k = 2 -> "Account ID Nulo"
      [] k = 3 -> "Amount Negativo"
      [] k = 4 -> "Data Futura"
      [] k = 5 -> "Categoria Inválida"

Where(k, row, current_date) ==
    CASE k = 1 -> null_amount_query(row)
      [] k = 2 -> null_account_query(row)
      [] k = 3 -> negative_amount_query(row)
      [] k = 4 -> future_date_query(row, current_date)
      [] k = 5 -> invalid_category_query(row)

\* what a rule's SELECT reads: the table, and for rule 4 CURRENT_DATE
NoDate == <<>>
Reads(k, table, current_date) ==
    [store |-> table, current_date |-> IF k = 4 THEN current_date ELSE NoDate]

\* the rows a rule's SELECT returns from a table
Select(k, table, current_date) == {r \in table : Where(k, r, current_date) = "T"}

null_amount_msg(row) == <<"Valor da transação (amount) é nulo.">>

null_account_msg(row) == <<"ID da conta (account_id) é nulo.">>

\* the message written with the amount's absolute value
negative_amount_msg_abs(row) ==
    <<"Valor da transação (amount) é negativo: ">>
    \o StrAmount(Val(Abs(row.amount[1]))) \o <<".">>

negative_amount_msg(row) ==
    <<"Valor da transação (amount) é negativo: ">> \o StrAmount(row.amount) \o <<".">>

future_date_msg(row) ==
    <<"Data da transação (transaction_date) está no futuro: ">>
    \o StrDate(row.transaction_date) \o <<".">>

invalid_category_msg(row) ==
    <<"Categoria da transação (category) é inválida: ", "'">>
    \o StrText(row.category) \o <<"'", ".">>

error_msg(k, row) ==
    CASE k = 1 -> null_amount_msg(row)
      [] k = 2 -> null_account_msg(row)
      [] k = 3 -> negative_amount_msg(row)
      [] k = 4 -> future_date_msg(row)
      [] k = 5 -> invalid_category_msg(row)

\* the Violation a row of the log holds: the row without its identity column
Violation(row) ==
    [transaction_id |-> row.transaction_id, validation_rule |-> row.validation_rule,
     error_message |-> row.error_message]

Violations(rows) == {Violation(rows[i]) : i \in 1..Len(rows)}

\* the Violations of a log with the number of rows that hold each
LogBag(rows) ==
    [v \in Violations(rows) |-> Cardinality({i \in 1..Len(rows) : Violation(rows[i]) = v})]

\* the row INSERT INTO log_table writes; id is the identity column
LogRow(id, k, row) ==
    [id |-> id, transaction_id |-> row.transaction_id,
     validation_rule |-> rule_name(k), error_message |-> error_msg(k, row)]

(***************************************************************************)
(* The ingestor's input: the lines of the CSV file, in file order.         *)
(***************************************************************************)
Files == UNION {[1..n -> Rows] : n \in 0..Cardinality(TransactionIds)}

\* df.drop_duplicates(subset=['transaction_id'], keep='last')
RECURSIVE drop_duplicates_keep_last(_)
drop_duplicates_keep_last(df) ==
    IF df = <<>> THEN <<>>
    ELSE LET back == drop_duplicates_keep_last(Tail(df))
             first == Head(df)
         IN IF \E i \in 1..Len(back) : back[i].transaction_id = first.transaction_id
            THEN back
            ELSE <<first>> \o back

\* df.drop_duplicates(subset=['transaction_id'], keep='first')
RECURSIVE drop_duplicates(_)
drop_duplicates(df) ==
    IF df = <<>> THEN <<>>
    ELSE LET front == drop_duplicates(SubSeq(df, 1, Len(df) - 1))
             last == df[Len(df)]
         IN IF \E i \in 1..Len(front) : front[i].transaction_id = last.transaction_id
            THEN front
            ELSE Append(front, last)

ToTable(df) == {df[i] : i \in 1..Len(df)}

\* the tables ingest_data_to_db can leave in the Record Store
Tables == {ToTable(drop_duplicates(f)) : f \in Files}

(***************************************************************************)
(* generate_transactions_data.  A DataFrame of hundreds of rows is kept    *)
(* column by column, each column as the number of rows that hold each      *)
(* value: the injections write one column each, on rows drawn without      *)
(* regard to their content, and the rules read one column each.  The rows  *)
(* appended as duplicates are kept apart from the num_records rows         *)
(* generated first, which come first in the file.                          *)
(***************************************************************************)
\* the values of num_records followed: below the size at which duplicates
\* are made, the size of the integration test, the default
NumRecordsChoices == {100, 500, 1000}

\* int(num_records * 0.02), int(num_records * 0.01), int(num_records * 0.005)
Share(num_records, per_mille) == (num_records * per_mille) \div 1000

num_nulls(num_records) == Share(num_records, 20)

\* 2% of negative amounts: as many as null amounts
num_negative_amounts_as_nulls(num_records) == Share(num_records, 20)

num_negative_amounts(num_records) == Share(num_records, 10)

num_future_dates(num_records) == Share(num_records, 10)

\* 0.05% of duplicates
num_duplicates_fewer(num_records) == (num_records * 5) \div 10000

num_duplicates(num_records) == Share(num_records, 5)

\* the day before a date and the day after it
LeapYear(y) == (y % 4 = 0 /\ y % 100 # 0) \/ y % 400 = 0

DaysIn(y, m) ==
    IF m = 2 THEN (IF LeapYear(y) THEN 29 ELSE 28)
    ELSE IF m \in {4, 6, 9, 11} THEN 30 ELSE 31

DayBefore(d) ==
    IF d[3] > 1 THEN <<d[1], d[2], d[3] - 1>>
    ELSE IF d[2] > 1 THEN <<d[1], d[2] - 1, DaysIn(d[1], d[2] - 1)>>
    ELSE <<d[1] - 1, 12, 31>>

DayAfter(d) ==
    IF d[3] < DaysIn(d[1], d[2]) THEN <<d[1], d[2], d[3] + 1>>
    ELSE IF d[2] < 12 THEN <<d[1], d[2] + 1, 1>>
    ELSE <<d[1] + 1, 1, 1>>

\* the amounts of a generated file: random.uniform(5.00, 5000.00), NaN, and
\* -random.uniform(1.00, 100.00), in cents
GoodAmount == Val(25000)
NegativeAmount == Val(-5000)

\* the account_ids: f"ACC{random.randint(100000, 999999)}" and NaN
GoodAccount == Val("ACC100000")

\* the categories: random.choice(categories), all of them valid
GoodCategory == Val("COMPRAS")

\* the dates of a file generated on the day now: now - randint(0, 30) days
\* stands as now itself, the latest of them; now + randint(1, 30) days is the
\* day after now, or a later day, which stands as the second day after now
Tomorrow(now) == DayAfter(now)
Later(now) == DayAfter(DayAfter(now))

\* the number of rows a column holds
RECURSIVE Total(_)
Total(column) ==
    IF DOMAIN column = {} THEN 0
    ELSE LET v == CHOOSE w \in DOMAIN column : TRUE
         IN column[v] + Total([w \in DOMAIN column \ {v} |-> column[w]])

\* the value counts of the rows that hold one of the values
Only(column) == [v \in {w \in DOMAIN column : column[w] > 0} |-> column[v]]

\* df.sample(n=k) seen from one column: the ways k rows can be drawn from it
Samples(column, k) ==
    {s \in [DOMAIN column -> 0..k] :
        /\ \A v \in DOMAIN column : s[v] <= column[v]
        /\ Total(s) = k}

\* the column of both frames of pd.concat([df, duplicate_rows])
Concat(column, more) ==
    [v \in DOMAIN column \cup DOMAIN more |->
        (IF v \in DOMAIN column THEN column[v] ELSE 0)
        + (IF v \in DOMAIN more THEN more[v] ELSE 0)]

\* duplicate_rows['transaction_date'].apply(lambda d: d - timedelta(days=1))
Shifted(column) ==
    [d \in {DayBefore(v) : v \in DOMAIN column} |->
        column[CHOOSE v \in DOMAIN column : DayBefore(v) = d]]

\* the null amounts that can be left when the negative amounts are written:
\* df.sample draws the rows of the negative amounts among all rows, those
\* without amount too
NullsKept(num_records) ==
    {k \in 0..num_nulls(num_records) :
        /\ k >= num_nulls(num_records) - num_negative_amounts(num_records)
        /\ k + num_negative_amounts(num_records) <= num_records}

\* the number of rows whose transaction_id is drawn for duplication: the ids
\* are drawn with replacement, so from one to num_duplicates different rows
Copies(num_records) ==
    IF num_duplicates(num_records) > 0 THEN 1..num_duplicates(num_records) ELSE {0}

\* the columns of the num_records rows after the injections, on the day now:
\* null_kept null amounts were not overwritten by a negative amount, tomorrow
\* of the future dates are the day after now
Injected(num_records, now, null_kept, tomorrow) ==
    [amount |-> (GoodAmount :> (num_records - null_kept - num_negative_amounts(num_records))
                 @@ Null :> null_kept
                 @@ NegativeAmount :> num_negative_amounts(num_records)),
     account_id |-> (GoodAccount :> (num_records - num_nulls(num_records))
                     @@ Null :> num_nulls(num_records)),
     transaction_date |-> (now :> (num_records - num_future_dates(num_records))
                           @@ Tomorrow(now) :> tomorrow
                           @@ Later(now) :> (num_future_dates(num_records) - tomorrow)),
     category |-> (GoodCategory :> num_records)]

\* the frame written to the file: the injected rows, and after them the
\* copies of the rows drawn for duplication, a day earlier each
Frame(num_records, now, df, a, b, c) ==
    [num_records |-> num_records, now |-> now,
     amount |-> df.amount, account_id |-> df.account_id,
     transaction_date |-> df.transaction_date, category |-> df.category,
     duplicate_rows |-> [amount |-> Only(a), account_id |-> Only(b),
                         transaction_date |-> Shifted(Only(c)),
                         category |-> Only(GoodCategory :> Total(a))]]

(***************************************************************************)
(* ingest_data_to_db and run_data_validations on a generated file, by      *)
(* columns.                                                                *)
(***************************************************************************)
ColumnNames == {"amount", "account_id", "transaction_date", "category"}

\* a table without rows
EmptyTable == [c \in ColumnNames |-> <<>>]

\* the rows of the file: pd.read_csv of the frame and of the rows appended to it
FileRows(frame) == [c \in ColumnNames |-> Only(Concat(frame[c], frame.duplicate_rows[c]))]

\* len(df)
NumRows(columns) == Total(columns["amount"])

\* no drop_duplicates: every row of the file is kept
drop_duplicates_frame_keep_all(frame) == FileRows(frame)

\* df.drop_duplicates(subset=['transaction_id'], keep='first') on a generated
\* file: the transaction_ids of the appended rows are ids of the num_records
\* rows before them, which are uuid4 values, distinct; the first num_records
\* rows stay
drop_duplicates_frame(frame) == [c \in ColumnNames |-> Only(frame[c])]

\* the column the WHERE clause of rule k reads
rule_column(k) ==
    CASE k \in {1, 3} -> "amount"
      [] k = 2 -> "account_id"
      [] k = 4 -> "transaction_date"
      [] k = 5 -> "category"

\* a row as far as rule k reads it
Cell(k, v) ==
    CASE k \in {1, 3} -> [amount |-> v]
      [] k = 2 -> [account_id |-> v]
      [] k = 4 -> [transaction_date |-> v]
      [] k = 5 -> [category |-> v]

\* len(fetchall()) of rule k's query: a row is logged for each
RuleCount(k, columns, current_date) ==
    LET column == columns[rule_column(k)]
    IN  Total([v \in {w \in DOMAIN column : Where(k, Cell(k, w), current_date) = "T"}
                 |-> column[v]])

\* SELECT validation_rule, COUNT(*) FROM data_validation_logs GROUP BY
\* validation_rule, after run_data_validations completed on the table
LogsSummary(columns, current_date) ==
    [name \in {rule_name(k) : k \in {j \in 1..5 : RuleCount(j, columns, current_date) > 0}}
        |-> RuleCount(CHOOSE k \in 1..5 : rule_name(k) = name, columns, current_date)]

(***************************************************************************)
(* State.                                                                  *)
(***************************************************************************)
\* the callers of run_data_validations; each holds one connection
Runs == {"run-1", "run-2"}

\* the exceptions a database call of the validator can raise: a DBAPIError
\* (it carries .orig), a SQLAlchemyError that carries no .orig, any other
Exceptions == {"DBAPIError", "SQLAlchemyError", "Exception"}

VARIABLES
    store,      \* rows of the table "transactions" (committed)
    today,      \* CURRENT_DATE of the database
    log,        \* rows of the table "data_validation_logs" (committed), in insertion order
    identity,   \* next value of the identity column of data_validation_logs
    pc,         \* pc[p]: Idle, ClearingLog, EvaluatingRule, Done, Failed
    step,       \* step[p]: the statement p executes next: connect, truncate, commit, query, insert
    rule,       \* rule[p]: the rule p evaluates (0 while clearing)
    rows,       \* rows[p]: rows fetched by the rule's SELECT and not yet logged
    pending,    \* pending[p]: rows p's connection inserted and has not committed
    result,     \* result[p]: how the last call ended: none, returned, raised
    caught,     \* caught[p]: the exception the call's except clauses caught, or none
    calls,      \* number of calls of run_data_validations so far
    loaded,     \* ingest_data_to_db ran since the last call of run_data_validations began
    input,      \* the rows of the file it read then, in file order
    dirty,      \* store or today changed since the last call began
    seen,       \* seen[p][k]: what rule k's SELECT of this call read
    hist,       \* hist[p]: what the log held when this call began, whether the call before it
                \*          completed, and whether store and today stood still since it began
    stage,      \* how far the run generate -> ingest -> validate on a generated file has come
    csv,        \* the file generate_transactions_data wrote, by columns: <<>> or <<frame>>
    transactions, \* the table "transactions" loaded from it, by columns
    logs_summary, \* validation_rule -> COUNT(*) of the log of the validation of that table
    app,        \* where run_application is: idle, generate, ingest, validate, validating,
                \*   done (its last log line written), stopped (returned after a failed
                \*   connection test), aborted (left by an exception)
    apps,       \* number of calls of run_application so far
    disk,       \* the file data/raw/transactions.csv: <<>> (absent) or <<its rows>>
    ingest_pc,  \* where ingest_data_to_db is: idle, read, truncate, write, returned, raised
    ingest_df,  \* its DataFrame df
    invoked,    \* the functions run_application has called in this run, in order
    at_start,   \* what file, table and log were when run_application was called
    at_ingest,  \* what the table was, and whether the file existed, when ingest_data_to_db was called
    failed_at,  \* the step of ingest_data_to_db that raised, or none
    processed,  \* rows of the table "transactions_processed" (committed)
    proc_pc,    \* where process_transactions_data is: idle, read, truncate, write, done,
                \*   failed (returned after an except clause), raised
    proc_df,    \* its DataFrame df, transformed
    proc_seen,  \* what its SELECT read and the current_date it took: <<>> or <<record>>
    processed_from, \* the same of the call that wrote the rows of "transactions_processed"
    validated   \* the table and the CURRENT_DATE of the validation the log is from

vars == <<store, today, log, identity, pc, step, rule, rows, pending, result, caught,
          calls, loaded, input, dirty, seen, hist, stage, csv, transactions, logs_summary,
          app, apps, disk, ingest_pc, ingest_df, invoked, at_start, at_ingest, failed_at,
          processed, proc_pc, proc_df, proc_seen, processed_from, validated>>

\* the variables of the runs on generated files
gen_vars == <<stage, csv, transactions, logs_summary>>

\* the variables of run_application and of the steps of ingest_data_to_db
app_vars == <<app, apps, disk, ingest_pc, ingest_df, invoked, at_start, at_ingest, failed_at>>

\* the variables of process_transactions_data and of the validation of its table
proc_vars == <<processed, proc_pc, proc_df, proc_seen, processed_from, validated>>

\* the variables no step of the validator or of its environment touches
rest == <<gen_vars, app_vars, proc_vars>>

env == <<store, today, loaded, input, dirty, rest>>

InProgress(p) == pc[p] \in {"ClearingLog", "EvaluatingRule"}

Init ==
    /\ store = {}
    /\ today = Day0
    /\ log = <<>>
    /\ identity = 1
    /\ pc = [p \in Runs |-> "Idle"]
    /\ step = [p \in Runs |-> "none"]
    /\ rule = [p \in Runs |-> 0]
    /\ rows = [p \in Runs |-> <<>>]
    /\ pending = [p \in Runs |-> <<>>]
    /\ result = [p \in Runs |-> "none"]
    /\ caught = [p \in Runs |-> "none"]
    /\ calls = 0
    /\ loaded = FALSE
    /\ input = <<>>
    /\ dirty = FALSE
    /\ seen = [p \in Runs |-> <<>>]
    /\ hist = [p \in Runs |-> [log |-> <<>>, completed |-> FALSE, still |-> FALSE]]
    /\ stage = "start"
    /\ csv = <<>>
    /\ transactions = EmptyTable
    /\ logs_summary = <<>>
    /\ app = "idle"
    /\ apps = 0
    /\ disk = <<>>
    /\ ingest_pc = "idle"
    /\ ingest_df = <<>>
    /\ invoked = <<>>
    /\ at_start = [disk |-> <<>>, store |-> {}, log |-> <<>>]
    /\ at_ingest = [store |-> {}, exists |-> FALSE]
    /\ failed_at = "none"
    /\ processed = {}
    /\ proc_pc = "idle"
    /\ proc_df = {}
    /\ proc_seen = <<>>
    /\ processed_from = <<>>
    /\ validated = <<>>

(***************************************************************************)
(* run_data_validations, statement by statement.                           *)
(***************************************************************************)
\* the call: get_db_engine(), and entry of the try block
Begin(p) ==
    /\ pc[p] = "Idle"
    /\ calls < MaxRuns
    /\ calls' = calls + 1
    /\ pc' = [pc EXCEPT ![p] = "ClearingLog"]
    /\ step' = [step EXCEPT ![p] = "connect"]
    /\ rule' = [rule EXCEPT ![p] = 0]
    /\ rows' = [rows EXCEPT ![p] = <<>>]
    /\ pending' = [pending EXCEPT ![p] = <<>>]
    /\ result' = [result EXCEPT ![p] = "none"]
    /\ caught' = [caught EXCEPT ![p] = "none"]
    /\ seen' = [seen EXCEPT ![p] = <<>>]
    /\ hist' = [hist EXCEPT ![p] = [log |-> LogBag(log),
                                    completed |-> hist[p].completed,
                                    still |-> ~dirty]]
    /\ dirty' = FALSE
    /\ loaded' = FALSE
    /\ input' = <<>>
    /\ UNCHANGED <<log, identity, store, today, rest>>

\* with engine.connect() as connection
Connect(p) ==
    /\ pc[p] = "ClearingLog" /\ step[p] = "connect"
    /\ step' = [step EXCEPT ![p] = "truncate"]
    /\ UNCHANGED <<log, identity, pc, rule, rows, pending, result, caught, calls, seen, hist, env>>

\* q has executed TRUNCATE and not committed: its transaction holds the
\* exclusive lock of log_table
TruncateLock(q) == pc[q] = "ClearingLog" /\ step[q] = "commit"

\* q has executed INSERTs and not committed: its transaction holds a row lock
\* mode of log_table, which TRUNCATE waits for
InsertLock(q) == pending[q] # <<>>

\* a TRUNCATE that does not wait for the transactions that inserted
Truncate_nowait(p) ==
    /\ pc[p] = "ClearingLog" /\ step[p] = "truncate"
    /\ step' = [step EXCEPT ![p] = "commit"]
    /\ UNCHANGED <<log, identity, pc, rule, rows, pending, result, caught, calls, seen, hist, env>>

\* a TRUNCATE on an autocommit connection: the log is empty before the commit
Truncate_autocommit(p) ==
    /\ pc[p] = "ClearingLog" /\ step[p] = "truncate"
    /\ \A q \in Runs \ {p} : ~TruncateLock(q) /\ ~InsertLock(q)
    /\ log' = <<>>
    /\ identity' = 1
    /\ step' = [step EXCEPT ![p] = "commit"]
    /\ UNCHANGED <<pc, rule, rows, pending, result, caught, calls, seen, hist, env>>

\* connection.execute(TRUNCATE TABLE log_table RESTART IDENTITY): takes effect at the commit
Truncate(p) ==
    /\ pc[p] = "ClearingLog" /\ step[p] = "truncate"
    /\ \A q \in Runs \ {p} : ~TruncateLock(q) /\ ~InsertLock(q)
    /\ step' = [step EXCEPT ![p] = "commit"]
    /\ UNCHANGED <<log, identity, pc, rule, rows, pending, result, caught, calls, seen, hist, env>>

\* the call goes on without clearing the log
CommitClear_keep(p) ==
    /\ pc[p] = "ClearingLog" /\ step[p] = "commit"
    /\ pc' = [pc EXCEPT ![p] = "EvaluatingRule"]
    /\ step' = [step EXCEPT ![p] = "query"]
    /\ rule' = [rule EXCEPT ![p] = 1]
    /\ UNCHANGED <<log, identity, rows, pending, result, caught, calls, seen, hist, env>>

\* the TRUNCATE commits without RESTART IDENTITY having emptied the table:
\* the rows of the call before stay
CommitClear_append(p) ==
    /\ pc[p] = "ClearingLog" /\ step[p] = "commit"
    /\ log' = log
    /\ identity' = 1
    /\ pc' = [pc EXCEPT ![p] = "EvaluatingRule"]
    /\ step' = [step EXCEPT ![p] = "query"]
    /\ rule' = [rule EXCEPT ![p] = 1]
    /\ UNCHANGED <<rows, pending, result, caught, calls, seen, hist, env>>

\* TRUNCATE TABLE log_table without RESTART IDENTITY
CommitClear_no_restart(p) ==
    /\ pc[p] = "ClearingLog" /\ step[p] = "commit"
    /\ log' = <<>>
    /\ pc' = [pc EXCEPT ![p] = "EvaluatingRule"]
    /\ step' = [step EXCEPT ![p] = "query"]
    /\ rule' = [rule EXCEPT ![p] = 1]
    /\ UNCHANGED <<identity, rows, pending, result, caught, calls, seen, hist, env>>

\* the TRUNCATE names table_name, not log_table
CommitClear_table_name(p) ==
    /\ pc[p] = "ClearingLog" /\ step[p] = "commit"
    /\ store' = {}
    /\ pc' = [pc EXCEPT ![p] = "EvaluatingRule"]
    /\ step' = [step EXCEPT ![p] = "query"]
    /\ rule' = [rule EXCEPT ![p] = 1]
    /\ UNCHANGED <<log, identity, rows, pending, result, caught, calls, seen, hist,
                   today, loaded, input, dirty, rest>>

\* connection.commit() of the TRUNCATE
CommitClear(p) ==
    /\ pc[p] = "ClearingLog" /\ step[p] = "commit"
    /\ log' = <<>>
    /\ identity' = 1
    /\ pc' = [pc EXCEPT ![p] = "EvaluatingRule"]
    /\ step' = [step EXCEPT ![p] = "query"]
    /\ rule' = [rule EXCEPT ![p] = 1]
    /\ UNCHANGED <<rows, pending, result, caught, calls, seen, hist, env>>

\* every rule's query reads the table as the call's first query found it
Query_snapshot(p) ==
    /\ pc[p] = "EvaluatingRule" /\ step[p] = "query"
    /\ \E fetched \in Orderings(Select(rule[p],
                                        IF seen[p] = <<>> THEN store ELSE seen[p][1].store,
                                        today)) :
          rows' = [rows EXCEPT ![p] = fetched]
    /\ seen' = [seen EXCEPT ![p] = Append(@, Reads(rule[p], store, today))]
    /\ step' = [step EXCEPT ![p] = "insert"]
    /\ UNCHANGED <<log, identity, pc, rule, pending, result, caught, calls, hist, env>>

\* connection.execute(<rule's query>).fetchall()
Query(p) ==
    /\ pc[p] = "EvaluatingRule" /\ step[p] = "query"
    /\ \E fetched \in Orderings(Select(rule[p], store, today)) :
          rows' = [rows EXCEPT ![p] = fetched]
    /\ seen' = [seen EXCEPT ![p] = Append(@, Reads(rule[p], store, today))]
    /\ step' = [step EXCEPT ![p] = "insert"]
    /\ UNCHANGED <<log, identity, pc, rule, pending, result, caught, calls, hist, env>>

\* a connection in autocommit: each INSERT is committed as it is executed
Insert_autocommit(p) ==
    /\ pc[p] = "EvaluatingRule" /\ step[p] = "insert"
    /\ rows[p] # <<>>
    /\ log' = Append(log, LogRow(identity, rule[p], Head(rows[p])))
    /\ identity' = identity + 1
    /\ rows' = [rows EXCEPT ![p] = Tail(@)]
    /\ UNCHANGED <<pending, pc, step, rule, result, caught, calls, seen, hist, env>>

\* one turn of the for loop: connection.execute(insert_log_query, ...)
Insert(p) ==
    /\ pc[p] = "EvaluatingRule" /\ step[p] = "insert"
    /\ rows[p] # <<>>
    /\ \A q \in Runs \ {p} : ~TruncateLock(q)
    /\ pending' = [pending EXCEPT ![p] = Append(@, LogRow(identity, rule[p], Head(rows[p])))]
    /\ identity' = identity + 1
    /\ rows' = [rows EXCEPT ![p] = Tail(@)]
    /\ UNCHANGED <<log, pc, step, rule, result, caught, calls, seen, hist, env>>

\* a single commit at the end of the call instead of one after each rule
Commit_at_end(p) ==
    /\ pc[p] = "EvaluatingRule" /\ step[p] = "insert"
    /\ rows[p] = <<>>
    /\ IF rule[p] < NumRules
       THEN /\ rule' = [rule EXCEPT ![p] = @ + 1]
            /\ step' = [step EXCEPT ![p] = "query"]
            /\ UNCHANGED <<pc, result, caught, log, pending>>
       ELSE /\ log' = log \o pending[p]
            /\ pending' = [pending EXCEPT ![p] = <<>>]
            /\ pc' = [pc EXCEPT ![p] = "Done"]
            /\ step' = [step EXCEPT ![p] = "none"]
            /\ result' = [result EXCEPT ![p] = "returned"]
            /\ UNCHANGED caught
            /\ UNCHANGED rule
    /\ UNCHANGED <<identity, rows, calls, seen, hist, env>>

\* the loop is over: connection.commit(), then the next rule or the end of the call
Commit(p) ==
    /\ pc[p] = "EvaluatingRule" /\ step[p] = "insert"
    /\ rows[p] = <<>>
    /\ log' = log \o pending[p]
    /\ pending' = [pending EXCEPT ![p] = <<>>]
    /\ IF rule[p] < NumRules
       THEN /\ rule' = [rule EXCEPT ![p] = @ + 1]
            /\ step' = [step EXCEPT ![p] = "query"]
            /\ UNCHANGED <<pc, result, caught>>
       ELSE /\ pc' = [pc EXCEPT ![p] = "Done"]
            /\ step' = [step EXCEPT ![p] = "none"]
            /\ result' = [result EXCEPT ![p] = "returned"]
            /\ UNCHANGED caught
            /\ UNCHANGED rule
    /\ UNCHANGED <<identity, rows, calls, seen, hist, env>>

\* the except clause that catches exc: DBAPIError is a SQLAlchemyError
except_clause(exc) ==
    IF exc \in {"DBAPIError", "SQLAlchemyError"} THEN "SQLAlchemyError" ELSE "Exception"

\* a failure that makes the call start over at the clearing of the log
Fail_retry(p, exc) ==
    /\ InProgress(p)
    /\ pending' = [pending EXCEPT ![p] = <<>>]
    /\ rows' = [rows EXCEPT ![p] = <<>>]
    /\ pc' = [pc EXCEPT ![p] = "ClearingLog"]
    /\ step' = [step EXCEPT ![p] = "connect"]
    /\ rule' = [rule EXCEPT ![p] = 0]
    /\ seen' = [seen EXCEPT ![p] = <<>>]
    /\ caught' = [caught EXCEPT ![p] = exc]
    /\ UNCHANGED <<log, identity, result, calls, hist, env>>

\* a failure that leaves in the log what the connection had inserted
Fail_keep_inserted(p, exc) ==
    /\ InProgress(p)
    /\ log' = log \o pending[p]
    /\ pending' = [pending EXCEPT ![p] = <<>>]
    /\ rows' = [rows EXCEPT ![p] = <<>>]
    /\ pc' = [pc EXCEPT ![p] = "Failed"]
    /\ step' = [step EXCEPT ![p] = "none"]
    /\ caught' = [caught EXCEPT ![p] = exc]
    /\ result' = [result EXCEPT ![p] = IF exc = "SQLAlchemyError" THEN "raised" ELSE "returned"]
    /\ UNCHANGED <<identity, rule, calls, seen, hist, env>>

\* a handler that lets every exception through to the caller
Fail_reraise(p, exc) ==
    /\ InProgress(p)
    /\ pending' = [pending EXCEPT ![p] = <<>>]
    /\ rows' = [rows EXCEPT ![p] = <<>>]
    /\ pc' = [pc EXCEPT ![p] = "Failed"]
    /\ step' = [step EXCEPT ![p] = "none"]
    /\ caught' = [caught EXCEPT ![p] = exc]
    /\ result' = [result EXCEPT ![p] = "raised"]
    /\ UNCHANGED <<log, identity, rule, calls, seen, hist, env>>

\* a handler in which no exception has the attribute orig
Fail_orig_missing(p, exc) ==
    /\ InProgress(p)
    /\ pending' = [pending EXCEPT ![p] = <<>>]
    /\ rows' = [rows EXCEPT ![p] = <<>>]
    /\ pc' = [pc EXCEPT ![p] = "Failed"]
    /\ step' = [step EXCEPT ![p] = "none"]
    /\ caught' = [caught EXCEPT ![p] = exc]
    /\ result' = [result EXCEPT ![p] = IF except_clause(exc) = "SQLAlchemyError"
                                       THEN "raised" ELSE "returned"]
    /\ UNCHANGED <<log, identity, rule, calls, seen, hist, env>>

\* the statement p is at raises exc: the with block closes the connection, which
\* rolls back what it has not committed; the except clauses log the error, and
\* the first of them reads e.orig
Fail(p, exc) ==
    /\ InProgress(p)
    /\ pending' = [pending EXCEPT ![p] = <<>>]
    /\ rows' = [rows EXCEPT ![p] = <<>>]
    /\ pc' = [pc EXCEPT ![p] = "Failed"]
    /\ step' = [step EXCEPT ![p] = "none"]
    /\ caught' = [caught EXCEPT ![p] = exc]
    /\ result' = [result EXCEPT ![p] = IF exc = "SQLAlchemyError" THEN "raised" ELSE "returned"]
    /\ UNCHANGED <<log, identity, rule, calls, seen, hist, env>>

\* the finally clause, and the return to the caller
Return(p) ==
    /\ pc[p] \in {"Done", "Failed"}
    /\ pc' = [pc EXCEPT ![p] = "Idle"]
    /\ rule' = [rule EXCEPT ![p] = 0]
    /\ result' = [result EXCEPT ![p] = "none"]
    /\ caught' = [caught EXCEPT ![p] = "none"]
    /\ seen' = [seen EXCEPT ![p] = <<>>]
    /\ hist' = [hist EXCEPT ![p] = [log |-> <<>>, completed |-> pc[p] = "Done", still |-> FALSE]]
    /\ UNCHANGED <<log, identity, step, rows, pending, calls, env>>

(***************************************************************************)
(* The environment of the validator.                                       *)
(***************************************************************************)
\* ingest_data_to_db on a file that exists and loads: the table is
\* truncated and the file's rows, without its duplicates, are appended
Ingest(file) ==
    /\ store' = ToTable(drop_duplicates(file))
    /\ loaded' = TRUE
    /\ input' = file
    /\ dirty' = (dirty \/ store' # store)
    /\ UNCHANGED <<today, log, identity, pc, step, rule, rows, pending, result, caught, calls,
                   seen, hist, rest>>

\* midnight passes: CURRENT_DATE moves to the next day
Midnight ==
    /\ today = Day0
    /\ today' = Day1
    /\ dirty' = TRUE
    /\ UNCHANGED <<store, loaded, input, log, identity, pc, step, rule, rows, pending, result,
                   caught, calls, seen, hist, rest>>

(***************************************************************************)
(* Spec: the tables are created empty; one caller ("run-1") calls          *)
(* run_data_validations again and again; the ingestor runs before a call,  *)
(* once, as in the pipeline of main.py, and never during a call (the       *)
(* single writer the design assumes); midnight may pass at any moment.     *)
(***************************************************************************)
Caller == "run-1"

\* a call is under way or one follows
Watched == InProgress(Caller) \/ calls < MaxRuns

\* no call is under way and one follows
BetweenCalls == pc[Caller] = "Idle" /\ calls < MaxRuns

Next ==
    \/ Begin(Caller)
    \/ Connect(Caller)
    \/ Truncate(Caller)
    \/ CommitClear(Caller)
    \/ Query(Caller)
    \/ Insert(Caller)
    \/ Commit(Caller)
    \/ \E exc \in Exceptions : Fail(Caller, exc)
    \/ Return(Caller)
    \/ \E file \in Files : BetweenCalls /\ ~loaded /\ Ingest(file)
    \/ Watched /\ Midnight

Spec == Init /\ [][Next]_vars

(***************************************************************************)
(* SpecWriter: as Spec, and the ingestor may also run while a call of      *)
(* run_data_validations is under way: nothing in either function keeps     *)
(* the other out. The table changes at most once during a call, and one    *)
(* call is followed from its beginning to its return.                      *)
(***************************************************************************)
\* no call of run_data_validations was made yet
FirstCall == calls = 0

\* the ingestor may run: before a call as in Spec, or during one
WriterMayRun == (FirstCall /\ ~loaded) \/ (InProgress(Caller) /\ ~dirty)

NextWriter ==
    \/ FirstCall /\ Begin(Caller)
    \/ Connect(Caller)
    \/ Truncate(Caller)
    \/ CommitClear(Caller)
    \/ Query(Caller)
    \/ Insert(Caller)
    \/ Commit(Caller)
    \/ Return(Caller)
    \/ \E file \in Files : WriterMayRun /\ Ingest(file)

SpecWriter == Init /\ [][NextWriter]_vars

(***************************************************************************)
(* SpecTwoRuns: the ingestor has loaded the table; then run_data_validations *)
(* is called twice at the same time, each call on its own connection to    *)
(* the same two tables, and each is followed to its end. The file the      *)
(* ingestor loaded has the rows of one transaction, so the table has at    *)
(* most one record: one record is enough for the two calls to disturb      *)
(* each other.                                                             *)
(***************************************************************************)
\* all rows of the file have the same transaction_id
OneTransaction(file) ==
    \A i, j \in 1..Len(file) : file[i].transaction_id = file[j].transaction_id

NextTwoRuns ==
    \/ \E file \in Files : FirstCall /\ ~loaded /\ OneTransaction(file) /\ Ingest(file)
    \/ \E p \in Runs :
          \/ Begin(p)
          \/ Connect(p)
          \/ Truncate(p)
          \/ CommitClear(p)
          \/ Query(p)
          \/ Insert(p)
          \/ Commit(p)
          \/ \E exc \in Exceptions : Fail(p, exc)

SpecTwoRuns == Init /\ [][NextTwoRuns]_vars

(***************************************************************************)
(* SpecGenerated: the steps of test_full_ingestion_and_validation_flow,    *)
(* each run to completion: generate_transactions_data writes a file,       *)
(* ingest_data_to_db loads it, run_data_validations validates the table;   *)
(* midnight may pass once the file is written.                             *)
(***************************************************************************)
\* generate_transactions_data(num_records): the file is written
Generate(num_records) ==
    /\ stage = "start"
    /\ \E null_kept \in NullsKept(num_records),
          tomorrow \in 0..num_future_dates(num_records),
          copies \in Copies(num_records) :
          LET df == Injected(num_records, today, null_kept, tomorrow)
          IN  \E a \in Samples(df.amount, copies),
                 b \in Samples(df.account_id, copies),
                 c \in Samples(df.transaction_date, copies) :
                 csv' = <<Frame(num_records, today, df, a, b, c)>>
    /\ stage' = "generated"
    /\ UNCHANGED <<transactions, logs_summary>>

\* ingest_data_to_db(file_path): the file is there and loads
IngestGenerated ==
    /\ stage = "generated"
    /\ transactions' = drop_duplicates_frame(csv[1])
    /\ stage' = "ingested"
    /\ UNCHANGED <<csv, logs_summary>>

\* run_data_validations(): the call completes; rule 4 reads CURRENT_DATE
ValidateGenerated ==
    /\ stage = "ingested"
    /\ logs_summary' = LogsSummary(transactions, today)
    /\ stage' = "validated"
    /\ UNCHANGED <<csv, transactions>>

validator_vars == <<log, identity, pc, step, rule, rows, pending, result, caught, calls,
                    seen, hist>>

NextGenerated ==
    \/ \E num_records \in NumRecordsChoices :
          Generate(num_records) /\ UNCHANGED <<validator_vars, store, today, loaded, input, dirty, app_vars, proc_vars>>
    \/ IngestGenerated /\ UNCHANGED <<validator_vars, store, today, loaded, input, dirty, app_vars, proc_vars>>
    \/ ValidateGenerated /\ UNCHANGED <<validator_vars, store, today, loaded, input, dirty, app_vars, proc_vars>>
    \/ stage \in {"generated", "ingested"} /\ Midnight

SpecGenerated == Init /\ [][NextGenerated]_vars

(***************************************************************************)
(* SpecApp: run_application is called again and again, one call after the  *)
(* other: the connection test, generate_transactions_data,                 *)
(* ingest_data_to_db step by step, run_data_validations statement by       *)
(* statement. Any database call of the last two may raise, the file may    *)
(* be removed before the ingestion reads it. The file generated has one    *)
(* row or none, and all happens within one day.                            *)
(***************************************************************************)
\* what the validator and the runs on generated files hold
app_rest == <<log, identity, pc, step, rule, rows, pending, result, caught, calls, seen, hist,
              today, gen_vars, proc_vars>>

\* the file has at most one row, of the first transaction
OneRow(file) == Len(file) <= 1 /\ \A i \in 1..Len(file) : file[i].transaction_id = "trans-1"

\* run_application writes the file and then returns when the test fails
RunApplication_generate_first(connected) ==
    /\ app \in {"idle", "done", "stopped", "aborted"}
    /\ pc[Caller] = "Idle"
    /\ apps < MaxRuns
    /\ apps' = apps + 1
    /\ invoked' = <<>>
    /\ at_start' = [disk |-> disk, store |-> store, log |-> log]
    /\ at_ingest' = [store |-> {}, exists |-> FALSE]
    /\ failed_at' = "none"
    /\ app' = IF connected THEN "generate" ELSE "stopped"
    /\ \E file \in Files : OneRow(file) /\ disk' = <<file>>
    /\ UNCHANGED <<ingest_pc, ingest_df, store, loaded, input, dirty, app_rest>>

\* run_application is called: test_db_connection() returns connected, True
\* or False (it catches every exception); on False run_application returns
RunApplication(connected) ==
    /\ app \in {"idle", "done", "stopped", "aborted"}
    /\ pc[Caller] = "Idle"
    /\ apps < MaxRuns
    /\ apps' = apps + 1
    /\ invoked' = <<>>
    /\ at_start' = [disk |-> disk, store |-> store, log |-> log]
    /\ at_ingest' = [store |-> {}, exists |-> FALSE]
    /\ failed_at' = "none"
    /\ app' = IF connected THEN "generate" ELSE "stopped"
    /\ UNCHANGED <<disk, ingest_pc, ingest_df, store, loaded, input, dirty, app_rest>>

\* generate_transactions_data(num_records=10000): the file is written
GenerateFile(file) ==
    /\ app = "generate"
    /\ disk' = <<file>>
    /\ invoked' = Append(invoked, "generate_transactions_data")
    /\ app' = "ingest"
    /\ UNCHANGED <<apps, ingest_pc, ingest_df, at_start, at_ingest, failed_at, store, loaded,
                   input, dirty, app_rest>>

\* the file is removed before ingest_data_to_db looks for it
Unlink ==
    /\ app = "ingest" /\ ingest_pc = "idle"
    /\ disk # <<>>
    /\ disk' = <<>>
    /\ UNCHANGED <<app, apps, ingest_pc, ingest_df, invoked, at_start, at_ingest, failed_at,
                   store, loaded, input, dirty, app_rest>>

\* the table is truncated before the file is looked for
IngestCall_truncate_first ==
    /\ app = "ingest" /\ ingest_pc = "idle"
    /\ invoked' = Append(invoked, "ingest_data_to_db")
    /\ at_ingest' = [store |-> store, exists |-> disk # <<>>]
    /\ failed_at' = "none"
    /\ ingest_pc' = IF disk = <<>> THEN "returned" ELSE "read"
    /\ store' = {}
    /\ UNCHANGED <<app, apps, disk, ingest_df, at_start, loaded, input, dirty, app_rest>>

\* ingest_data_to_db() is called: when os.path.exists finds no file it logs
\* an error and returns
IngestCall ==
    /\ app = "ingest" /\ ingest_pc = "idle"
    /\ invoked' = Append(invoked, "ingest_data_to_db")
    /\ at_ingest' = [store |-> store, exists |-> disk # <<>>]
    /\ failed_at' = "none"
    /\ ingest_pc' = IF disk = <<>> THEN "returned" ELSE "read"
    /\ UNCHANGED <<app, apps, disk, ingest_df, at_start, store, loaded, input, dirty, app_rest>>

\* pd.read_csv, the conversions and drop_duplicates
IngestRead ==
    /\ ingest_pc = "read"
    /\ ingest_df' = drop_duplicates(disk[1])
    /\ ingest_pc' = "truncate"
    /\ UNCHANGED <<app, apps, disk, invoked, at_start, at_ingest, failed_at, store, loaded,
                   input, dirty, app_rest>>

\* get_db_engine(), and on a connection of its own TRUNCATE TABLE table_name
\* RESTART IDENTITY CASCADE and its commit
IngestTruncate ==
    /\ ingest_pc = "truncate"
    /\ store' = {}
    /\ dirty' = (dirty \/ store # {})
    /\ ingest_pc' = "write"
    /\ UNCHANGED <<app, apps, disk, ingest_df, invoked, at_start, at_ingest, failed_at,
                   loaded, input, app_rest>>

\* df.to_sql(table_name, engine, if_exists='append'): one transaction
IngestWrite ==
    /\ ingest_pc = "write"
    /\ store' = ToTable(ingest_df)
    /\ loaded' = TRUE
    /\ input' = disk[1]
    /\ dirty' = (dirty \/ store' # store)
    /\ ingest_pc' = "returned"
    /\ UNCHANGED <<app, apps, disk, ingest_df, invoked, at_start, at_ingest, failed_at,
                   app_rest>>

\* the exceptions a step of ingest_data_to_db can raise: reading the file
\* raises FileNotFoundError, EmptyDataError or another exception of pandas;
\* the database calls raise as those of the validator do
IngestExceptions(at) ==
    IF at = "read" THEN {"FileNotFoundError", "EmptyDataError", "Exception"}
    ELSE Exceptions

\* the step ingest_data_to_db is at raises exc: a transaction that is open
\* is rolled back; the except clauses log the error and the function
\* returns, but the clause of SQLAlchemyError reads e.orig, which only a
\* DBAPIError has
IngestFail(exc) ==
    /\ ingest_pc \in {"read", "truncate", "write"}
    /\ exc \in IngestExceptions(ingest_pc)
    /\ failed_at' = ingest_pc
    /\ ingest_pc' = IF exc = "SQLAlchemyError" THEN "raised" ELSE "returned"
    /\ UNCHANGED <<app, apps, disk, ingest_df, invoked, at_start, at_ingest, store, loaded,
                   input, dirty, app_rest>>

\* ingest_data_to_db has ended
IngestEnded == ingest_pc \in {"returned", "raised"}

\* run_application goes on after ingest_data_to_db, or is left by the
\* exception that came out of it
IngestReturn ==
    /\ app = "ingest" /\ IngestEnded
    /\ app' = IF ingest_pc = "returned" THEN "validate" ELSE "aborted"
    /\ ingest_pc' = "idle"
    /\ ingest_df' = <<>>
    /\ UNCHANGED <<apps, disk, invoked, at_start, at_ingest, failed_at, store, loaded, input,
                   dirty, app_rest>>

\* run_application calls run_data_validations()
CallValidate ==
    /\ app = "validate"
    /\ app' = "validating"
    /\ invoked' = Append(invoked, "run_data_validations")
    /\ UNCHANGED <<apps, disk, ingest_pc, ingest_df, at_start, at_ingest, failed_at, store,
                   loaded, input, dirty, app_rest>>

\* run_data_validations has ended: run_application writes its last log line,
\* or is left by the exception that came out of the call
Validated ==
    /\ app = "validating"
    /\ pc[Caller] \in {"Done", "Failed"}
    /\ app' = IF result[Caller] = "returned" THEN "done" ELSE "aborted"
    /\ UNCHANGED <<apps, disk, ingest_pc, ingest_df, invoked, at_start, at_ingest, failed_at,
                   store, loaded, input, dirty, app_rest>>

NextApp ==
    \/ \E connected \in BOOLEAN : RunApplication(connected)
    \/ \E file \in Files : OneRow(file) /\ GenerateFile(file)
    \/ Unlink
    \/ IngestCall
    \/ IngestRead
    \/ IngestTruncate
    \/ IngestWrite
    \/ \E exc \in Exceptions \cup IngestExceptions("read") : IngestFail(exc)
    \/ IngestReturn
    \/ CallValidate
    \/ app = "validating" /\ Begin(Caller)
    \/ Connect(Caller)
    \/ Truncate(Caller)
    \/ CommitClear(Caller)
    \/ Query(Caller)
    \/ Insert(Caller)
    \/ Commit(Caller)
    \/ \E exc \in Exceptions : Fail(Caller, exc)
    \/ Validated
    \/ app # "validating" /\ Return(Caller)

SpecApp == Init /\ [][NextApp]_vars

(***************************************************************************)
(* process_transactions_data: the treatment of a row, column by column in  *)
(* the order of the code, and the steps of the function.                   *)
(***************************************************************************)
\* null amounts are left as they are
fill_null_amount_none(row) == row

\* df['amount'].fillna(0.00)
fill_null_amount(row) ==
    IF IsNull(row.amount) THEN [row EXCEPT !.amount = Val(0)] ELSE row

\* df['account_id'].fillna('UNKNOWN')
fill_null_account_id(row) ==
    IF IsNull(row.account_id) THEN [row EXCEPT !.account_id = Val("UNKNOWN")] ELSE row

\* df['amount'].abs(); the absolute value of NaN is NaN
abs_amount(row) ==
    IF IsNull(row.amount) THEN row ELSE [row EXCEPT !.amount = Val(Abs(row.amount[1]))]

\* df.loc[df['transaction_date'] > current_date, 'transaction_date'] = current_date
cap_future_date(row, current_date) ==
    IF DateAfter(row.transaction_date, current_date)
    THEN [row EXCEPT !.transaction_date = current_date]
    ELSE row

\* valid_categories of the processor
processor_valid_categories ==
    {"ALIMENTACAO", "COMPRAS", "SERVICOS", "TRANSPORTES", "SAUDE", "LAZER"}

\* only the null categories become 'OUTROS'
replace_categories_nulls_only(row) ==
    IF IsNull(row.category) THEN [row EXCEPT !.category = Val("OUTROS")] ELSE row

\* df['category'].fillna('OUTROS'), then 'OUTROS' where the category is not
\* in valid_categories
replace_categories(row) ==
    LET filled == IF IsNull(row.category) THEN [row EXCEPT !.category = Val("OUTROS")] ELSE row
    IN  IF filled.category[1] \notin processor_valid_categories
        THEN [filled EXCEPT !.category = Val("OUTROS")]
        ELSE filled

\* the treatments in the order of the code
treat(row, current_date) ==
    replace_categories(
        cap_future_date(
            abs_amount(fill_null_account_id(fill_null_amount(row))),
            current_date))

\* process_transactions_data() is called: get_db_engine(), and the
\* connection is opened
ProcessCall ==
    /\ proc_pc = "idle"
    /\ proc_pc' = "read"
    /\ UNCHANGED <<processed, proc_df, proc_seen, processed_from, validated>>

\* pd.read_sql(SELECT * FROM source_table) and the treatments, with
\* current_date = pd.Timestamp.now().date()
ProcessRead ==
    /\ proc_pc = "read"
    /\ proc_seen' = <<[store |-> store, current_date |-> today]>>
    /\ proc_df' = {treat(r, today) : r \in store}
    /\ proc_pc' = "truncate"
    /\ UNCHANGED <<processed, processed_from, validated>>

\* TRUNCATE TABLE target_table RESTART IDENTITY CASCADE and its commit
ProcessTruncate ==
    /\ proc_pc = "truncate"
    /\ processed' = {}
    /\ processed_from' = <<>>
    /\ proc_pc' = "write"
    /\ UNCHANGED <<proc_df, proc_seen, validated>>

\* df.to_sql(target_table, engine, if_exists='append'): one transaction
ProcessWrite ==
    /\ proc_pc = "write"
    /\ processed' = proc_df
    /\ processed_from' = proc_seen
    /\ proc_pc' = "done"
    /\ UNCHANGED <<proc_df, proc_seen, validated>>

\* the statement process_transactions_data is at raises exc: what is not
\* committed is rolled back, the except clauses log the error, and the
\* first of them reads e.orig
ProcessFail(exc) ==
    /\ proc_pc \in {"read", "truncate", "write"}
    /\ proc_pc' = IF exc = "SQLAlchemyError" THEN "raised" ELSE "failed"
    /\ UNCHANGED <<processed, proc_df, proc_seen, processed_from, validated>>

\* the finally clause, and the end of the call
ProcessReturn ==
    /\ proc_pc \in {"done", "failed", "raised"}
    /\ proc_pc' = "idle"
    /\ proc_df' = {}
    /\ proc_seen' = <<>>
    /\ UNCHANGED <<processed, processed_from, validated>>

\* the rows rule k logs for the rows its SELECT returned, in their order,
\* the identity column counting on from first_id
RuleRows(k, fetched, first_id) ==
    [i \in 1..Len(fetched) |-> LogRow(first_id + i - 1, k, fetched[i])]

\* run_data_validations(table_name="transactions_processed") from its
\* TRUNCATE of the log to the commit of rule 5, without a failure
ValidateProcessed ==
    /\ proc_pc = "idle"
    /\ processed_from # <<>>
    /\ \E o1 \in Orderings(Select(1, processed, today)),
          o2 \in Orderings(Select(2, processed, today)),
          o3 \in Orderings(Select(3, processed, today)),
          o4 \in Orderings(Select(4, processed, today)),
          o5 \in Orderings(Select(5, processed, today)) :
          LET l1 == RuleRows(1, o1, 1)
              l2 == l1 \o RuleRows(2, o2, Len(l1) + 1)
              l3 == l2 \o RuleRows(3, o3, Len(l2) + 1)
              l4 == l3 \o RuleRows(4, o4, Len(l3) + 1)
          IN  log' = l4 \o RuleRows(5, o5, Len(l4) + 1)
    /\ identity' = Len(log') + 1
    /\ validated' = <<[table |-> processed, from |-> processed_from[1],
                       current_date |-> today]>>
    /\ UNCHANGED <<processed, proc_pc, proc_df, proc_seen, processed_from>>

(***************************************************************************)
(* SpecProcess: the ingestor loads the table, process_transactions_data    *)
(* is called, step by step, any of its database calls may raise, and       *)
(* run_data_validations is run on the table it wrote.  The functions run   *)
(* one at a time, the ingestor before the first processing; midnight may   *)
(* pass at any moment.                                                     *)
(***************************************************************************)
\* what the steps of process_transactions_data leave alone
proc_rest == <<store, today, loaded, input, dirty, log, identity, pc, step, rule, rows, pending,
               result, caught, calls, seen, hist, gen_vars, app_vars>>

\* what the validation of the processed table leaves alone
validate_rest == <<store, today, loaded, input, dirty, pc, step, rule, rows, pending,
                   result, caught, calls, seen, hist, gen_vars, app_vars>>

\* nothing was processed or validated
NothingProcessed == proc_pc = "idle" /\ processed_from = <<>> /\ validated = <<>>

NextProcess ==
    \/ \E file \in Files : NothingProcessed /\ Ingest(file)
    \/ ProcessCall /\ UNCHANGED proc_rest
    \/ ProcessRead /\ UNCHANGED proc_rest
    \/ ProcessTruncate /\ UNCHANGED proc_rest
    \/ ProcessWrite /\ UNCHANGED proc_rest
    \/ \E exc \in Exceptions : ProcessFail(exc) /\ UNCHANGED proc_rest
    \/ ProcessReturn /\ UNCHANGED proc_rest
    \/ ValidateProcessed /\ UNCHANGED validate_rest
    \/ Midnight

SpecProcess == Init /\ [][NextProcess]_vars

(***************************************************************************)
(* What the rules are meant to find, stated on the record itself.          *)
(***************************************************************************)
AmountIsNull(r) == r.amount = Null
AccountIsNull(r) == r.account_id = Null
AmountIsNegative(r) == r.amount # Null /\ r.amount[1] < 0
DateIsFuture(r, date) == DateAfter(r.transaction_date, date)
CategoryIsInvalid(r) ==
    \/ r.category = Null
    \/ r.category[1] \notin {"ALIMENTACAO", "COMPRAS", "SERVICOS", "TRANSPORTES", "SAUDE", "LAZER"}

\* the predicate of rule k holds on record r, given what rule k's query read
Holds(k, r, read) ==
    CASE k = 1 -> AmountIsNull(r)
      [] k = 2 -> AccountIsNull(r)
      [] k = 3 -> AmountIsNegative(r)
      [] k = 4 -> DateIsFuture(r, read.current_date)
      [] k = 5 -> CategoryIsInvalid(r)

RuleNames == {"Amount Nulo", "Account ID Nulo", "Amount Negativo", "Data Futura",
              "Categoria Inválida"}

\* the positions of the log's rows for record id under the rule called name
RowsFor(id, name) ==
    {i \in 1..Len(log) : log[i].transaction_id = id /\ log[i].validation_rule = name}

\* the positions of the log's rows for record id
RowsOf(id) == {i \in 1..Len(log) : log[i].transaction_id = id}

Completed(p) == pc[p] = "Done"

\* the call p read the same table in all its queries
SameTable(p) == \A k \in 1..Len(seen[p]) : seen[p][k].store = seen[p][1].store

\* C1: after a call that completes, on a table with unique transaction_id, the
\* log's rows with a rule's name are exactly the records on which the rule's
\* predicate held when its query ran: one row for each, none for the others,
\* and none for a transaction_id that is not in the table.
C1_RowsAreExactlyTheViolations ==
    \A p \in Runs : Completed(p) =>
        \A k \in 1..NumRules :
            LET read == seen[p][k]
            IN  UniqueIds(read.store) =>
                /\ \A r \in read.store :
                      Cardinality(RowsFor(r.transaction_id, rule_name(k)))
                          = IF Holds(k, r, read) THEN 1 ELSE 0
                /\ \A i \in 1..Len(log) :
                      log[i].validation_rule = rule_name(k)
                          => log[i].transaction_id \in IdsOf(read.store)

\* a completed call on a table with a record without amount and a record with
\* one: the first has its one 'Amount Nulo' row, the second has none
C1_Witness ==
    \E p \in Runs : Completed(p) /\
        \E r1, r2 \in seen[p][1].store :
            /\ r1.amount = Null /\ r2.amount # Null
            /\ Cardinality(RowsFor(r1.transaction_id, "Amount Nulo")) = 1
            /\ RowsFor(r2.transaction_id, "Amount Nulo") = {}

\* C2: after a completed call every record with amount < 0 has an 'Amount
\* Negativo' row whose message contains the record's amount as Python writes
\* it; a record whose amount is zero, positive or null has no such row.
C2_NegativeAmountLogged ==
    \A p \in Runs : Completed(p) =>
        \A r \in seen[p][3].store :
            IF r.amount # Null /\ r.amount[1] < 0
            THEN \E i \in RowsFor(r.transaction_id, "Amount Negativo") :
                    Contains(log[i].error_message, StrAmount(r.amount))
            ELSE RowsFor(r.transaction_id, "Amount Negativo") = {}

\* a completed call logged the amount -50.00 of a record, and logged nothing
\* under 'Amount Negativo' for a record with amount zero
C2_Witness ==
    \E p \in Runs : Completed(p) /\
        \E r1, r2 \in seen[p][3].store :
            /\ r1.amount = Val(-5000) /\ r2.amount = Val(0)
            /\ \E i \in RowsFor(r1.transaction_id, "Amount Negativo") :
                  Contains(log[i].error_message, <<"-", "5", "0", ".", "0", "0">>)
            /\ RowsFor(r2.transaction_id, "Amount Negativo") = {}

\* C3: after a completed call every record dated strictly after the date that
\* was current when rule 4's query ran has a 'Data Futura' row whose message
\* contains that date; a record dated that day or earlier has none.
C3_FutureDateLogged ==
    \A p \in Runs : Completed(p) =>
        \A r \in seen[p][4].store :
            IF DateAfter(r.transaction_date, seen[p][4].current_date)
            THEN \E i \in RowsFor(r.transaction_id, "Data Futura") :
                    Contains(log[i].error_message, StrDate(r.transaction_date))
            ELSE RowsFor(r.transaction_id, "Data Futura") = {}

\* a completed call whose rule 4 ran before midnight and which ended after it:
\* the record dated the new day is logged with its date, the record dated the
\* day of the query is not
C3_Witness ==
    \E p \in Runs : Completed(p) /\ seen[p][4].current_date = Day0 /\ today = Day1 /\
        \E r1, r2 \in seen[p][4].store :
            /\ r1.transaction_date = Day1 /\ r2.transaction_date = Day0
            /\ \E i \in RowsFor(r1.transaction_id, "Data Futura") :
                  Contains(log[i].error_message,
                           <<"2", "0", "2", "6", "-", "0", "1", "-", "0", "1">>)
            /\ RowsFor(r2.transaction_id, "Data Futura") = {}

C5_NoShortCircuit ==
    \A p \in Runs : (Completed(p) /\ SameTable(p)) =>
        \A r \in seen[p][1].store :
            Cardinality(RowsOf(r.transaction_id))
                = Cardinality({k \in 1..NumRules : Holds(k, r, seen[p][k])})

\* a completed call logged a record without amount and without account under
\* both 'Amount Nulo' and 'Account ID Nulo'
C5_Witness ==
    \E p \in Runs : Completed(p) /\ SameTable(p) /\
        \E r \in seen[p][1].store :
            /\ r.amount = Null /\ r.account_id = Null
            /\ RowsFor(r.transaction_id, "Amount Nulo") # {}
            /\ RowsFor(r.transaction_id, "Account ID Nulo") # {}
            /\ Cardinality(RowsOf(r.transaction_id)) >= 2

\* a record is fully valid on a day: amount not null and >= 0, account_id not
\* null, transaction_date not after the day, category one of the six
FullyValid(r, date) ==
    /\ r.amount # Null /\ r.amount[1] >= 0
    /\ r.account_id # Null
    /\ ~DateAfter(r.transaction_date, date)
    /\ r.category # Null
    /\ r.category[1] \in {"ALIMENTACAO", "COMPRAS", "SERVICOS", "TRANSPORTES", "SAUDE", "LAZER"}

\* C6: if every record of the table is fully valid the log is empty after a
\* completed call, whatever it held before the call.
C6_ValidTableEmptyLog ==
    \A p \in Runs : (Completed(p) /\ SameTable(p)) =>
        ((\A r \in seen[p][1].store : FullyValid(r, seen[p][4].current_date))
            => log = <<>>)

\* a completed call on a table of two fully valid records left the log empty
\* although the log held rows when the call began
C6_Witness ==
    \E p \in Runs : Completed(p) /\ SameTable(p)
        /\ Cardinality(seen[p][1].store) = 2
        /\ \A r \in seen[p][1].store : FullyValid(r, seen[p][4].current_date)
        /\ DOMAIN hist[p].log # {}
        /\ log = <<>>

\* the two records test_validator_no_violations inserts: positive amount,
\* account, past date, categories COMPRAS and FINANCAS
TestNoViolationsTable(table) ==
    /\ Cardinality(table) = 2
    /\ \A r \in table : /\ r.amount # Null /\ r.amount[1] > 0
                        /\ r.account_id # Null
                        /\ r.transaction_date = PastDate
    /\ \E r \in table : r.category = Val("COMPRAS")
    /\ \E r \in table : r.category = Val("FINANCAS")

\* C7: the validator records no violation for the data
\* test_validator_no_violations treats as valid: on a table of a record of
\* category COMPRAS and a record of category FINANCAS, both otherwise valid,
\* the log is empty after the call.
C7_TestDataNoViolations ==
    \A p \in Runs : (Completed(p) /\ SameTable(p) /\ TestNoViolationsTable(seen[p][1].store))
        => log = <<>>

\* C8: with the table and the date unchanged, a completed call that follows a
\* completed call leaves in the log the Violations the first one left, each as
\* many times (so the same number per rule).
C8_RerunIdempotent ==
    \A p \in Runs :
        (Completed(p) /\ hist[p].completed /\ hist[p].still /\ ~dirty)
            => LogBag(log) = hist[p].log

\* a second completed call on an unchanged table that has violations
C8_Witness ==
    \E p \in Runs : Completed(p) /\ hist[p].completed /\ hist[p].still /\ ~dirty
        /\ Len(log) >= 2 /\ LogBag(log) = hist[p].log

\* the Violations of the records of a table, as the rules define them
Expected(p) ==
    {[transaction_id |-> r.transaction_id, validation_rule |-> rule_name(k),
      error_message |-> error_msg(k, r)] :
        <<k, r>> \in {kr \in (1..NumRules) \X seen[p][1].store : Holds(kr[1], kr[2], seen[p][kr[1]])}}

\* C9: the log is empty when the first rule is evaluated, and after a completed
\* call it holds the Violations of the table the call read and nothing else: a
\* Violation the log held before the call is in it only if the table still
\* has it.
C9_LogRecomputed ==
    \A p \in Runs :
        /\ (pc[p] = "EvaluatingRule" /\ rule[p] = 1 /\ step[p] = "query") => log = <<>>
        /\ (Completed(p) /\ SameTable(p)) =>
              /\ Violations(log) = Expected(p)
              /\ \A v \in DOMAIN hist[p].log : v \in Violations(log) => v \in Expected(p)

\* a completed call whose log lacks a Violation the log held before the call
C9_Witness ==
    \E p \in Runs : Completed(p) /\ SameTable(p) /\
        \E v \in DOMAIN hist[p].log : v \notin Violations(log)

\* C10: when a call fails while it evaluates rule k >= 2, the rows of the rules
\* 1..k-1 are in the log when the call has ended: one for each record on which
\* the rule's predicate held.
C10_EarlierRulesKept ==
    \A p \in Runs : (pc[p] = "Failed" /\ rule[p] >= 2) =>
        \A j \in 1..(rule[p] - 1) :
            \A r \in seen[p][j].store :
                Holds(j, r, seen[p][j]) =>
                    Cardinality(RowsFor(r.transaction_id, rule_name(j))) = 1

\* a call failed in rule 3 or later after rows of the first two rules were
\* committed, and they are in the log
C10_Witness ==
    \E p \in Runs : pc[p] = "Failed" /\ rule[p] >= 3 /\
        \E r \in seen[p][1].store :
            /\ r.amount = Null /\ r.account_id = Null
            /\ Cardinality(RowsFor(r.transaction_id, "Amount Nulo")) = 1
            /\ Cardinality(RowsFor(r.transaction_id, "Account ID Nulo")) = 1

\* the steps a call may take, as pairs of pc and rule: from Idle to ClearingLog,
\* from ClearingLog to the first rule, from a rule to the next one, from the
\* last rule to Done, from ClearingLog or any rule to Failed, and from Done or
\* Failed back to Idle only
Linear(p) ==
    \/ pc'[p] = pc[p] /\ rule'[p] = rule[p]
    \/ pc[p] = "Idle" /\ pc'[p] = "ClearingLog" /\ rule'[p] = 0
    \/ pc[p] = "ClearingLog" /\ pc'[p] = "EvaluatingRule" /\ rule'[p] = 1
    \/ pc[p] = "EvaluatingRule" /\ pc'[p] = "EvaluatingRule"
          /\ rule[p] < 5 /\ rule'[p] = rule[p] + 1
    \/ pc[p] = "EvaluatingRule" /\ rule[p] = 5 /\ pc'[p] = "Done"
    \/ pc[p] \in {"ClearingLog", "EvaluatingRule"} /\ pc'[p] = "Failed" /\ rule'[p] = rule[p]
    \/ pc[p] \in {"Done", "Failed"} /\ pc'[p] = "Idle"

\* the names of the rules in the order the claim gives
RuleOrder == <<"Amount Nulo", "Account ID Nulo", "Amount Negativo", "Data Futura",
               "Categoria Inválida">>

\* the rule a query or an insert of p is made for is the rule p is at
AtItsRule(p) ==
    /\ Len(seen[p]) \in {rule[p], rule[p] - 1}
    /\ (pc[p] = "EvaluatingRule" /\ step[p] = "insert") => Len(seen[p]) = rule[p]
    /\ \A i \in 1..Len(pending[p]) : pending[p][i].validation_rule = RuleOrder[rule[p]]
    /\ \A i, j \in 1..Len(log) :
          (i < j /\ rule[p] >= 1) =>
              \E a, b \in 1..5 : /\ a <= b /\ b <= rule[p]
                                 /\ log[i].validation_rule = RuleOrder[a]
                                 /\ log[j].validation_rule = RuleOrder[b]

\* C11: a call goes Idle -> ClearingLog -> rule 1 -> ... -> rule 5 -> Done, the
\* rules in the order Amount Nulo, Account ID Nulo, Amount Negativo, Data
\* Futura, Categoria Inválida; a failure can happen in ClearingLog and in every
\* rule; after Failed the call evaluates nothing more and retries nothing: the
\* only step from Failed is the return, and the next call begins at ClearingLog.
C11_LinearRun ==
    /\ [][\A p \in Runs : Linear(p)]_vars
    /\ [](\A p \in Runs : pc[p] \in {"Idle", "ClearingLog", "EvaluatingRule", "Done", "Failed"})
    /\ [](AtItsRule(Caller))
    /\ [](InProgress(Caller) => ENABLED Fail(Caller, "Exception"))
    /\ []((pc[Caller] = "Failed") => /\ ~ENABLED Query(Caller)
                                     /\ ~ENABLED Insert(Caller)
                                     /\ ~ENABLED Commit(Caller)
                                     /\ ~ENABLED CommitClear(Caller))

\* a call failed while it evaluated the fifth rule, the four rules before it
\* evaluated in order, and this after an earlier call had failed and a fresh
\* one had begun
C11_Witness ==
    /\ pc[Caller] = "Failed" /\ rule[Caller] = 5 /\ Len(seen[Caller]) = 5
    /\ calls = 2 /\ ~hist[Caller].completed
    /\ Len(log) >= 2

\* the original statement of C12: a failure of the database during a call is
\* reported to the caller: the call that caught a SQLAlchemyError does not
\* return as a successful one does
C12_FailureReported ==
    \A p \in Runs :
        (pc[p] = "Failed" /\ except_clause(caught[p]) = "SQLAlchemyError")
            => result[p] = "raised"

\* C12: (amended) a failure of the database during a call is caught and logged
\* by the call itself. When the error is a DBAPIError (it carries the driver's
\* error as e.orig: a lost connection, a failed statement) the call returns
\* normally, as a successful call does, and the caller observes no failure;
\* only a SQLAlchemyError without orig reaches the caller, as the
\* AttributeError its handler raises.
C12_FailureLoggedNotReported ==
    \A p \in Runs :
        /\ (pc[p] = "Failed" /\ caught[p] = "DBAPIError") => result[p] = "returned"
        /\ (pc[p] = "Failed" /\ caught[p] = "SQLAlchemyError") => result[p] = "raised"
        /\ pc[p] = "Done" => result[p] = "returned"

\* a call lost the database while it evaluated a rule and returned normally
C12_Witness ==
    \E p \in Runs : /\ pc[p] = "Failed" /\ rule[p] >= 1
                    /\ caught[p] = "DBAPIError" /\ result[p] = "returned"

\* C13: a failure that is no SQLAlchemyError, raised by the clearing or by any
\* rule, is caught by except Exception and logged, and the call returns without
\* raising: the caller gets what it gets from a successful call.
C13_UnexpectedFailureSwallowed ==
    \A p \in Runs :
        /\ (pc[p] = "Failed" /\ caught[p] = "Exception") => result[p] = "returned"
        /\ pc[p] = "Done" => (result[p] = "returned" /\ caught[p] = "none")
        /\ (InProgress(p) /\ p = Caller) => ENABLED Fail(p, "Exception")

\* an unexpected failure in the clearing of the log was swallowed
C13_Witness ==
    \E p \in Runs : /\ pc[p] = "Failed" /\ rule[p] = 0
                    /\ caught[p] = "Exception" /\ result[p] = "returned"

\* the original statement of C14: when a call fails partway through a rule,
\* after some of the rule's violations were inserted and before all were, the
\* rows inserted before the failure are in the log after the failure
C14_PartialRuleKept ==
    [][\A p \in Runs :
          (/\ pc[p] = "EvaluatingRule" /\ pc'[p] = "Failed"
           /\ pending[p] # <<>> /\ rows[p] # <<>>)
              => \A i \in 1..Len(pending[p]) :
                    \E j \in 1..Len(log') : log'[j] = pending[p][i]]_vars

\* the inserts of a failed call that are not in the log: the identity values
\* drawn since the clear that no row of the log carries (a sequence does not
\* give back values at a rollback)
Discarded == (identity - 1) - Len(log)

\* C14: (amended) the rows of a rule are committed together or not at all: when
\* a call fails while it evaluates rule k, whatever it had inserted for rule k
\* is rolled back with the connection's open transaction, and the log holds the
\* violations of the rules 1..k-1 and no row of rule k or of a later rule.
C14_PartialRuleRolledBack ==
    \A p \in Runs : (pc[p] = "Failed" /\ rule[p] >= 1) =>
        \A j \in 1..NumRules : \A r \in store :
            Cardinality(RowsFor(r.transaction_id, rule_name(j)))
                = IF j < rule[p] /\ Holds(j, r, seen[p][j]) THEN 1 ELSE 0

\* a call failed in a rule that selected at least two records, after it had
\* inserted at least one row of the rule and before it had inserted all
C14_Witness ==
    \E p \in Runs :
        /\ pc[p] = "Failed" /\ rule[p] >= 1 /\ Len(seen[p]) = rule[p]
        /\ Discarded >= 1
        /\ Discarded < Cardinality(Select(rule[p], seen[p][rule[p]].store,
                                          seen[p][rule[p]].current_date))
        /\ \A i \in 1..Len(log) : log[i].validation_rule # rule_name(rule[p])

\* C15: no step of a call of run_data_validations, from its beginning to its
\* return, whether the call completes or fails, changes the rows of the table
\* transactions; the call writes the log table only.
C15_StoreNotMutated ==
    [][\A p \in Runs : (pc[p] # "Idle" \/ pc'[p] # "Idle") => store' = store]_vars

\* a call that failed in a late rule has changed the log and left the two
\* records of the table it read as they were
C15_Witness ==
    \E p \in Runs :
        /\ pc[p] = "Failed" /\ rule[p] >= 3
        /\ Cardinality(store) = 2 /\ store = seen[p][1].store
        /\ log # <<>> /\ LogBag(log) # hist[p].log

\* the committed log is the complete set of the violations of the rules 1..k
\* that call p found, and holds nothing else
CompleteUpTo(p, k) ==
    /\ k <= Len(seen[p])
    /\ \A i \in 1..Len(log) : log[i].transaction_id \in IdsOf(store)
    /\ \A j \in 1..NumRules : \A r \in store :
          Cardinality(RowsFor(r.transaction_id, rule_name(j)))
              = IF j <= k /\ Holds(j, r, seen[p][j]) THEN 1 ELSE 0

\* C16: at every moment of a call after the clear, what a reader of the
\* committed log sees is the complete set of the violations of the rules 1..k
\* for some k in 0..5: no part of a rule, and no rule without the rules before it.
C16_ReaderSeesWholeRules ==
    \A p \in Runs : (pc[p] # "Idle" /\ rule[p] >= 1) =>
        \E k \in 0..NumRules : CompleteUpTo(p, k)

\* while the call has inserted a row of rule 3 and not committed it, the reader
\* sees the violations of rules 1 and 2, which are there, and none of rule 3
C16_Witness ==
    \E p \in Runs :
        /\ pc[p] = "EvaluatingRule" /\ rule[p] = 3 /\ pending[p] # <<>>
        /\ log # <<>> /\ CompleteUpTo(p, 2) /\ ~CompleteUpTo(p, 3)

\* the records with transaction_id id in the table rule k's query of call p read
VersionAt(p, k, id) == {r \in seen[p][k].store : r.transaction_id = id}

\* C17: a call does not evaluate its rules on one snapshot: after a completed
\* call the rows of each rule are the violations of the table as it was when
\* that rule's query ran, also when the ingestor changed the table between two
\* rules; a record changed between rule i and rule j is judged by rule i on its
\* old value and by rule j on its new one.
C17_EachRuleReadsCurrentTable ==
    \A p \in Runs : Completed(p) =>
        \A k \in 1..NumRules : \A id \in TransactionIds :
            /\ Cardinality(RowsFor(id, rule_name(k)))
                 = IF \E r \in VersionAt(p, k, id) : Holds(k, r, seen[p][k]) THEN 1 ELSE 0
            /\ \A i \in RowsFor(id, rule_name(k)) :
                  \E r \in VersionAt(p, k, id) : log[i].error_message = error_msg(k, r)

\* a record had no amount when rule 1 ran and a negative amount when rule 3
\* ran, and the completed call logged it under both 'Amount Nulo' and
\* 'Amount Negativo', which no single version of the record violates together
C17_Witness ==
    \E p \in Runs : Completed(p) /\
        \E id \in TransactionIds :
            /\ \E r \in VersionAt(p, 1, id) : r.amount = Null
            /\ \E r \in VersionAt(p, 3, id) : r.amount # Null /\ r.amount[1] < 0
            /\ RowsFor(id, "Amount Nulo") # {}
            /\ RowsFor(id, "Amount Negativo") # {}

\* every call has ended
AllEnded == \A p \in Runs : pc[p] \in {"Done", "Failed"}

\* the number of rows of the log for record r under rule k
Logged(r, k) == Cardinality(RowsFor(r.transaction_id, rule_name(k)))

\* rule k's predicate holds on r today
Violates(r, k) == Holds(k, r, [store |-> store, current_date |-> today])

\* C18: two calls of run_data_validations that interleave on the same tables
\* can end with a log that is not the log of a single call. What the database
\* still guarantees is little: the keys of the log stay distinct, a row is
\* logged only for a record that violates the rule, at most once per call, and
\* when both calls completed every violation is there at least once. That every
\* violation is there exactly once is not guaranteed (C18_Witness).
C18_TwoRunsBounded ==
    /\ \A i, j \in 1..Len(log) : i # j => log[i].id # log[j].id
    /\ AllEnded =>
          /\ \A i \in 1..Len(log) : log[i].transaction_id \in IdsOf(store)
          /\ \A r \in store : \A k \in 1..NumRules :
                /\ Logged(r, k) <= (IF Violates(r, k) THEN Cardinality(Runs) ELSE 0)
                /\ ((\A p \in Runs : Completed(p)) /\ Violates(r, k)) => Logged(r, k) >= 1

\* both calls completed, on the same table and the same day, and the log has
\* one violation twice and another violation of the same record once: it is
\* neither what one call leaves nor what two calls in sequence leave
C18_Witness ==
    /\ \A p \in Runs : Completed(p)
    /\ \E r \in store : \E k1, k2 \in 1..NumRules :
          /\ Violates(r, k1) /\ Violates(r, k2)
          /\ Logged(r, k1) = 2 /\ Logged(r, k2) = 1

\* the place of a rule's name in the order of evaluation
RuleIndex(name) == CHOOSE k \in 1..5 : RuleOrder[k] = name

\* C19: the clear resets the identity key at every call: after a completed call
\* that logged N violations the keys are 1..N in the order of insertion, and a
\* violation of an earlier rule has a smaller key than one of a later rule.
C19_KeysRestart ==
    \A p \in Runs : Completed(p) =>
        /\ \A i \in 1..Len(log) : log[i].id = i
        /\ identity = Len(log) + 1
        /\ \A i, j \in 1..Len(log) :
              RuleIndex(log[i].validation_rule) < RuleIndex(log[j].validation_rule)
                  => log[i].id < log[j].id

\* a second completed call, begun with a log that held rows, left rows of two
\* rules with the keys 1..N
C19_Witness ==
    \E p \in Runs :
        /\ Completed(p) /\ hist[p].completed /\ DOMAIN hist[p].log # {}
        /\ Len(log) >= 2
        /\ log[1].id = 1 /\ log[Len(log)].id = Len(log)
        /\ log[1].validation_rule # log[Len(log)].validation_rule

\* C20: after ingest_data_to_db has loaded a file, the table holds one row for
\* each transaction_id of the file, the first row of the file with that id,
\* and no other row, whatever it held before; so transaction_id is unique in
\* the table when run_data_validations begins.
C20_IngestKeepsFirst ==
    /\ UniqueIds(store)
    /\ loaded =>
          /\ \A r \in store :
                \E i \in 1..Len(input) :
                    /\ input[i] = r
                    /\ \A j \in 1..(i - 1) : input[j].transaction_id # r.transaction_id
          /\ \A i \in 1..Len(input) : input[i].transaction_id \in IdsOf(store)

\* the file had two different rows with one transaction_id and the table holds
\* the first of them only, while the log still has a violation of a
\* transaction the table held before this load
C20_Witness ==
    /\ loaded /\ Len(input) = 2
    /\ input[1].transaction_id = input[2].transaction_id /\ input[1] # input[2]
    /\ store = {input[1]}
    /\ \E i \in 1..Len(log) : log[i].transaction_id \notin IdsOf(store)

\* the number of rows of a column that hold the value v
CountOf(column, v) == IF v \in DOMAIN column THEN column[v] ELSE 0

\* the number of rows of a column of dates that are after the day
CountAfter(column, day) ==
    Total([d \in {w \in DOMAIN column : DateAfter(w, day)} |-> column[d]])

\* C21: after generate_transactions_data(num_records = n) and the ingestion of
\* the file it wrote, the table transactions has at most n rows and at least
\* n - 1, whichever rows were duplicated.
C21_IngestedCount ==
    stage \in {"ingested", "validated"} =>
        /\ NumRows(transactions) <= csv[1].num_records
        /\ NumRows(transactions) >= csv[1].num_records - 1

\* a file of 500 rows and 2 appended duplicates was ingested
C21_Witness ==
    /\ stage = "ingested" /\ csv[1].num_records = 500
    /\ NumRows(FileRows(csv[1])) = 502
    /\ NumRows(transactions) = 500

\* the rules test_full_ingestion_and_validation_flow expects in the log
ExpectedRules == {"Account ID Nulo", "Amount Nulo", "Amount Negativo", "Data Futura"}

C23_GeneratedDefects ==
    (stage # "start" /\ csv[1].num_records = 1000) =>
        LET file == FileRows(csv[1])
        IN  /\ CountOf(file.amount, Null) >= 1
            /\ CountOf(file.account_id, Null) >= 1
            /\ CountOf(file.amount, NegativeAmount) >= 1
            /\ CountAfter(file.transaction_date, csv[1].now) >= 1
            /\ NumRows(file) > csv[1].num_records

\* of the 20 null amounts 10 were overwritten by the 10 negative amounts, and
\* the 5 ids drawn for duplication were 5 different rows
C23_Witness ==
    /\ stage = "generated" /\ csv[1].num_records = 1000
    /\ CountOf(csv[1].amount, Null) = 10
    /\ NumRows(FileRows(csv[1])) = 1005

\* C27: when the clearing of the log fails (the connection, the TRUNCATE or
\* its commit raises), the call ends without having evaluated a rule or
\* inserted a row, and the log holds exactly the rows it held when the call
\* began; the failing step itself changes nothing in the log.
C27_FailedClearKeepsLog ==
    /\ [][\A p \in Runs :
            (pc[p] = "ClearingLog" /\ pc'[p] = "Failed")
                => (log' = log /\ identity' = identity /\ rule'[p] = 0)]_vars
    /\ [](\A p \in Runs :
            (pc[p] = "Failed" /\ rule[p] = 0)
                => /\ LogBag(log) = hist[p].log
                   /\ seen[p] = <<>>
                   /\ pending[p] = <<>> /\ rows[p] = <<>>)

\* a call failed while it cleared a log that had rows, and the rows are there
C27_Witness ==
    \E p \in Runs : /\ pc[p] = "Failed" /\ rule[p] = 0
                    /\ log # <<>> /\ LogBag(log) = hist[p].log
                    /\ seen[p] = <<>>

\* C24: when the input file does not exist, ingest_data_to_db returns
\* without raising and leaves the table as it was: the call takes no step
\* that reads, truncates or writes.
C24_MissingFileLeavesStore ==
    /\ [][(ingest_pc = "idle" /\ ingest_pc' # "idle" /\ disk = <<>>)
            => (ingest_pc' = "returned" /\ store' = store /\ log' = log)]_vars
    /\ [](IngestEnded /\ ~at_ingest.exists
            => /\ ingest_pc = "returned"
               /\ failed_at = "none"
               /\ ingest_df = <<>>
               /\ store = at_ingest.store)

\* the file was removed, and the call returned with the table of the run
\* before, which has a record
C24_Witness ==
    /\ IngestEnded /\ ~at_ingest.exists
    /\ ingest_pc = "returned"
    /\ store # {} /\ store = at_ingest.store

\* the three steps of the pipeline, in the order of run_application
Pipeline == <<"generate_transactions_data", "ingest_data_to_db", "run_data_validations">>

\* C26: when test_db_connection returns False, run_application returns
\* having called none of generate_transactions_data, ingest_data_to_db and
\* run_data_validations, and the file, the table and the log are what they
\* were.
C26_NoStepWithoutConnection ==
    /\ [][(apps' # apps /\ app' = "stopped")
            => (disk' = disk /\ store' = store /\ log' = log)]_vars
    /\ [](app = "stopped"
            => /\ invoked = <<>>
               /\ disk = at_start.disk /\ store = at_start.store /\ log = at_start.log
               /\ ingest_pc = "idle" /\ pc[Caller] = "Idle")

\* a second call of run_application found no connection and returned; the
\* file, the table and the log of the first call are there
C26_Witness ==
    /\ app = "stopped" /\ apps = 2
    /\ disk # <<>> /\ store # {} /\ log # <<>>
    /\ invoked = <<>>

\* the original statement of C28: when the writing of the rows fails after
\* the truncate, ingest_data_to_db returns without raising and the table is
\* empty; when the reading of the file fails, the table is unchanged
C28_WriteFailureReturnsEmpty ==
    IngestEnded =>
        /\ failed_at = "write" => (ingest_pc = "returned" /\ store = {})
        /\ failed_at = "read" => (ingest_pc = "returned" /\ store = at_ingest.store)

\* what a failed ingestion leaves in the table, whether it returns or raises:
\* nothing when to_sql failed, what was there when an earlier step failed
StoreAfterIngestFailure ==
    IngestEnded =>
        /\ failed_at = "write" => store = {}
        /\ failed_at \in {"read", "truncate"} => store = at_ingest.store
        /\ ingest_pc = "raised" => failed_at \in {"truncate", "write"}

\* the original statement of C30: once the connection test has passed,
\* run_application calls generate, ingest and validate in this order, a
\* failure inside the ingestion does not stop it, and it reaches its last
\* log line
C30_PipelineRunsThrough ==
    /\ \E n \in 0..Len(Pipeline) : invoked = SubSeq(Pipeline, 1, n)
    /\ app = "done" => invoked = Pipeline
    /\ app # "aborted"

\* the row the processor is meant to write for a source row, column by column
Treated(q, r, current_date) ==
    /\ q.transaction_id = r.transaction_id
    /\ q.amount = (IF IsNull(r.amount) THEN Val(0)
                   ELSE IF r.amount[1] < 0 THEN Val(-r.amount[1])
                   ELSE r.amount)
    /\ q.account_id = (IF IsNull(r.account_id) THEN Val("UNKNOWN") ELSE r.account_id)
    /\ q.transaction_date = (IF DateAfter(r.transaction_date, current_date)
                             THEN current_date ELSE r.transaction_date)
    /\ q.category = (IF IsNull(r.category) \/ r.category[1] \notin valid_categories
                     THEN Val("OUTROS") ELSE r.category)

\* C25: after a successful process_transactions_data the target table has
\* one row per row of the source table, with the same transaction_ids: a
\* null amount is 0, a negative amount its absolute value, a null account_id
\* 'UNKNOWN', a transaction_date after the current date the current date, a
\* null or out-of-set category 'OUTROS', every other value as in the source;
\* no step of the function changes the source table.
C25_ProcessedTable ==
    /\ [][proc_pc' # proc_pc => store' = store]_vars
    /\ [](proc_pc = "done" =>
            LET source == proc_seen[1].store
                current_date == proc_seen[1].current_date
            IN  /\ store = source
                /\ Cardinality(processed) = Cardinality(source)
                /\ IdsOf(processed) = IdsOf(source)
                /\ \A r \in source : \E q \in processed : Treated(q, r, current_date)
                /\ \A q \in processed : \E r \in source : Treated(q, r, current_date))

\* two rows were processed: one without amount, dated after the current
\* date, one with a negative amount, without account and without category
C25_Witness ==
    /\ proc_pc = "done"
    /\ Cardinality(processed) = 2
    /\ \E r \in store : IsNull(r.amount) /\ DateAfter(r.transaction_date, today)
    /\ \E r \in store : /\ ~IsNull(r.amount) /\ r.amount[1] < 0
                        /\ IsNull(r.account_id) /\ IsNull(r.category)
    /\ \E q \in processed : q.amount = Val(0) /\ q.transaction_date = today
    /\ \E q \in processed : /\ q.amount = Val(5000) /\ q.account_id = Val("UNKNOWN")
                            /\ q.category = Val("OUTROS")

\* the rules a row of the log names, for the rows of a transaction
RulesLogged(id) ==
    {log[i].validation_rule : i \in {j \in 1..Len(log) : log[j].transaction_id = id}}

\* C29: run_data_validations on the table process_transactions_data wrote,
\* on the day of the processing, logs no 'Amount Nulo', 'Account ID Nulo',
\* 'Amount Negativo' or 'Data Futura'; and it logs 'Categoria Inválida' for
\* every record whose category the processor replaced by 'OUTROS'.
C29_ProcessedTableValidated ==
    (validated # <<>> /\ validated[1].current_date = validated[1].from.current_date) =>
        /\ \A i \in 1..Len(log) : log[i].validation_rule = "Categoria Inválida"
        /\ \A r \in validated[1].from.store :
              (IsNull(r.category) \/ r.category[1] \notin valid_categories)
                  => /\ "Categoria Inválida" \in RulesLogged(r.transaction_id)
                     /\ \E q \in validated[1].table :
                           q.transaction_id = r.transaction_id /\ q.category = Val("OUTROS")

\* the source had a record with a negative amount, no account, no category
\* and a date after the current date, and another of category FINANCAS: the
\* log of the processed table has two rows, both 'Categoria Inválida'
C29_Witness ==
    /\ validated # <<>> /\ validated[1].current_date = validated[1].from.current_date
    /\ \E r \in validated[1].from.store :
          /\ ~IsNull(r.amount) /\ r.amount[1] < 0
          /\ IsNull(r.account_id) /\ IsNull(r.category)
          /\ DateAfter(r.transaction_date, validated[1].current_date)
    /\ \E r \in validated[1].from.store : r.category = Val("FINANCAS")
    /\ Len(log) = 2
    /\ \A i \in 1..Len(log) : log[i].validation_rule = "Categoria Inválida"

====
